---- MODULE Spec2Model ----
(***************************************************************************)
(* State-machine model of native/jni/src/library.cpp: the two interceptors *)
(* (fstat_hook, unaryCall_hook), init and load_config, together with the   *)
(* parts of the process they act on (the descriptor table and the files    *)
(* behind it, the native heap, the host's SliceBuffer).                    *)
(***************************************************************************)
EXTENDS Integers, Sequences, FiniteSets, TLC

(***************************************************************************)
(* Bounds of the model.                                                    *)
(***************************************************************************)
MaxHdr == 2

MaxPayload == 2

MaxNewPayload == 2

(***************************************************************************)
(* Character strings are sequences of one-character strings.               *)
(***************************************************************************)
NUL == "NUL"

NameSize == 256

MetricsMarker == <<"f","i","l","e","s","/","b","l","i","z","z","a","r","d","v","2","/","q","u","e","u","e","s">>

BitmojiMarker == <<"c","o","m",".","s","n","a","p",".","f","i","l","e","_","m","a","n","a","g","e","r","_","4","_","S","C","C","o","n","t","e","n","t">>

ProcPrefix == <<"/","p","r","o","c","/","s","e","l","f","/","f","d","/">>

DeletedSuffix == <<" ","(","d","e","l","e","t","e","d",")">>

Rep(c, n) == [i \in 1..n |-> c]

Min(a, b) == IF a <= b THEN a ELSE b

Max(a, b) == IF a >= b THEN a ELSE b

DigitChar(d) == <<"0","1","2","3","4","5","6","7","8","9">>[d + 1]

RECURSIVE Digits(_)
Digits(n) == IF n < 10 THEN <<DigitChar(n)>>
             ELSE Digits(n \div 10) \o <<DigitChar(n % 10)>>

\* std::string::find(needle) != npos
Contains(hay, needle) ==
    \E i \in 0..(Len(hay) - Len(needle)) :
        \A j \in 1..Len(needle) : hay[i + j] = needle[j]

(***************************************************************************)
(* The descriptor table of the process: what each open descriptor's        *)
(* /proc/self/fd link resolves to.  Descriptor 27 is not open.             *)
(***************************************************************************)
NoLink == <<>>

PathMetrics == <<"/","d","/">> \o MetricsMarker \o <<"/","q">>

PathBitmoji == <<"/","d","/">> \o BitmojiMarker \o <<"/","b">>

PathPlain == <<"/","d","/","o">>

PathBoth == <<"/">> \o BitmojiMarker \o <<"/">> \o MetricsMarker

\* the marker lies within the first NameSize bytes of a longer path
PathLongMetrics == <<"/">> \o MetricsMarker \o <<"/">> \o Rep("x", NameSize)

\* the marker lies beyond the first NameSize bytes
PathLongBitmoji == <<"/">> \o Rep("x", NameSize) \o <<"/">> \o BitmojiMarker

\* no marker; the first NameSize bytes end one character short of the metrics marker
PathLongNear ==
    <<"/">> \o Rep("x", NameSize - Len(MetricsMarker))
            \o SubSeq(MetricsMarker, 1, Len(MetricsMarker) - 1) \o <<"_","z">>

FdTable ==
    (3 :> PathMetrics) @@ (4 :> PathBitmoji) @@ (5 :> PathPlain) @@
    (9 :> PathBoth) @@ (10 :> PathLongMetrics) @@ (11 :> PathLongBitmoji) @@
    (12 :> PathLongNear) @@ (27 :> NoLink)

FDs == DOMAIN FdTable

StatBufs == {"sb1", "sb2"}

\* errno of the calling thread when the interceptor is entered
EntryErrnos == {"E0", "EINTR"}

\* the bytes that follow name[] on the stack, up to their first zero byte
StackGarbage == {<<>>, <<"s">>, <<"x">>}

VARIABLES
    init_done,                \* init has been called
    log,                      \* messages written by init (LOGD / LOGE)
    calls,                    \* the calls init has made, with their outcome
    native_config,            \* NullConfig, or the two flags
    fstat_original,           \* "null", or the trampoline DobbyHook stored
    unaryCall_original,       \* "null", or the trampoline DobbyHook stored
    ref_counter_struct_size,  \* the function-local static of unaryCall_hook
    cfg_pc,                   \* position of the thread running load_config
    cfg_frame,                \* the flags of the config object being loaded
    pc,                       \* position of the host thread inside an interceptor
    frame,                    \* locals and observations of the running invocation
    unlinked,                 \* descriptors whose file has been unlinked
    heap,                     \* the native heap
    slice_buffer,             \* the host's SliceBuffer, (*buffer_ptr)->slice_buffer
    crashed,                  \* the process was killed by a fault
    history                   \* what has been pushed and published so far
                              \* (recorded for the properties of load_config)

vars == <<init_done, log, calls, native_config, fstat_original, unaryCall_original,
          ref_counter_struct_size, cfg_pc, cfg_frame, pc, frame, unlinked,
          heap, slice_buffer, crashed, history>>

NullConfig == [null |-> TRUE]

NoFrame == [op |-> "none"]

\* no config object is being loaded
NoConfigFrame == [op |-> "none"]

NoHistory == [published |-> NullConfig, last_push |-> NullConfig,
              start |-> NullConfig, seen |-> {}]

Unset == -1

(***************************************************************************)
(* The heap.  Block b occupies the addresses Base(b) .. Base(b)+size-1;    *)
(* address 0 is the null pointer.                                          *)
(***************************************************************************)
Blocks == 1..2

Stride == MaxHdr + Max(MaxPayload, MaxNewPayload) + 1

Base(b) == b * Stride

FreeBlock == [live |-> FALSE, bytes |-> <<>>]

NullSlice == [ref_counter |-> 0, data |-> 0, length |-> 0]

(***************************************************************************)
(* fstat_hook: path resolution                                             *)
(***************************************************************************)
\* memset(name, 0, 256); snprintf(name, sizeof(name), "/proc/self/fd/%d", fd)
Snprintf(fd) ==
    LET s == ProcPrefix \o Digits(fd)
    IN  [i \in 1..NameSize |->
            IF i <= Min(Len(s), NameSize - 1) THEN s[i] ELSE NUL]

\* what the kernel reports for /proc/self/fd/<fd>
LinkTarget(fd) ==
    IF fd \in unlinked THEN FdTable[fd] \o DeletedSuffix ELSE FdTable[fd]

\* readlink(name, name, sizeof(name)): at most NameSize bytes, no terminator;
\* the buffer is left as it was when the call fails
Readlink(buf, fd) ==
    IF FdTable[fd] = NoLink
    THEN [ok |-> FALSE, buf |-> buf]
    ELSE LET t == LinkTarget(fd)
             n == Min(Len(t), NameSize)
         IN  [ok |-> TRUE,
              buf |-> [i \in 1..NameSize |-> IF i <= n THEN t[i] ELSE buf[i]]]

HasNul(buf) == \E i \in 1..NameSize : buf[i] = NUL

\* the C string that starts at name: the bytes before the first zero byte,
\* which lies beyond the array when the array holds none (g: what follows it)
CStr(buf, g) ==
    IF HasNul(buf)
    THEN LET n == CHOOSE i \in 1..NameSize :
                      buf[i] = NUL /\ \A j \in 1..(i - 1) : buf[j] # NUL
         IN  SubSeq(buf, 1, n - 1)
    ELSE buf \o g

\* the files unlink(path) removes
UnlinkTargets(path) ==
    {f \in FDs \ unlinked : FdTable[f] # NoLink /\ FdTable[f] = path}

FstatDenied == -1

MetricsRule(cfg, fileName) ==
    cfg.disable_metrics /\ Contains(fileName, MetricsMarker)

BitmojiRule(cfg, fileName) ==
    cfg.disable_bitmoji /\ Contains(fileName, BitmojiMarker)

\* the outcomes of the original fstat
OrigFstat(fd, e) ==
    IF FdTable[fd] = NoLink
    THEN {[ret |-> -1, errno |-> "EBADF"]}
    ELSE {[ret |-> 0, errno |-> e], [ret |-> -1, errno |-> "EIO"]}

(***************************************************************************)
(* init and load_config                                                    *)
(***************************************************************************)
\* what util::get_module("libclient.so") returns
ClientModules == {[base |-> 0, size |-> 0], [base |-> 4096, size |-> 8192]}

\* what util::find_signature returns: 0 when the pattern is not found
SignatureResults == {0, 4160}

\* what DobbyHook reports: success, or the target could not be patched
HookResults == {"ok", "failed"}

Call(f, arg, ok) == [f |-> f, arg |-> arg, ok |-> ok]

\* mutant: a module with base 0 is not recognised as missing
ModuleNotFound_Never(client_module) == FALSE

\* line 122: client_module.base == 0
ModuleNotFound(client_module) == client_module.base = 0

\* mutant: the result of the scan is not tested
SignatureFound_Always(unaryCall_func) == TRUE

\* line 136: unaryCall_func != 0
SignatureFound(unaryCall_func) == unaryCall_func # 0

\* DobbyHook(target, replacement, &original): the trampoline it stores in
\* original when it succeeds
Trampoline(r, name, original) == IF r = "ok" THEN name ELSE original

init(client_module, fstatHook, unaryCall_func, unaryHook, m0, b0) ==
    /\ ~crashed /\ ~init_done
    /\ init_done' = TRUE
    \* new native_config_t: the flags hold whatever the allocation held
    /\ native_config' = [disable_metrics |-> m0, disable_bitmoji |-> b0]
    /\ LET c0 == <<Call("load_library", "client", TRUE),
                   Call("get_module", "libclient.so", client_module.base # 0)>>
           c1 == c0 \o <<Call("DobbyHook", "fstat", fstatHook = "ok"),
                          Call("find_signature", "unaryCall", unaryCall_func # 0)>>
       IN  IF ModuleNotFound(client_module)
           THEN /\ log' = <<"D:Initializing native", "E:libclient not found">>
                /\ calls' = c0
                /\ UNCHANGED <<fstat_original, unaryCall_original>>
           ELSE /\ fstat_original' = Trampoline(fstatHook, "fstat", fstat_original)
                /\ IF SignatureFound(unaryCall_func)
                   THEN /\ unaryCall_original' =
                              Trampoline(unaryHook, "unaryCall", unaryCall_original)
                        /\ calls' = c1 \o <<Call("DobbyHook", "unaryCall",
                                                 unaryHook = "ok")>>
                        /\ log' = <<"D:Initializing native", "D:libclient.so offset",
                                    "D:Native initialized">>
                   ELSE /\ UNCHANGED unaryCall_original
                        /\ calls' = c1
                        /\ log' = <<"D:Initializing native", "D:libclient.so offset",
                                    "E:can't find unaryCall signature",
                                    "D:Native initialized">>
    /\ UNCHANGED <<ref_counter_struct_size, cfg_pc, cfg_frame, pc, frame,
                   unlinked, heap, slice_buffer, crashed>>

\* mutant: the field read is the other one
GET_CONFIG_BOOL_OtherField(config_object, name) ==
    config_object[IF name = "disableBitmoji" THEN "disableMetrics"
                  ELSE "disableBitmoji"]

\* line 147: GetBooleanField(config_object, GetFieldID(clazz, name, "Z"))
GET_CONFIG_BOOL(config_object, name) == config_object[name]

\* native_config->disable_bitmoji = GET_CONFIG_BOOL("disableBitmoji")
load_config_bitmoji(b, m) ==
    /\ ~crashed /\ native_config # NullConfig /\ cfg_pc = "idle"
    /\ cfg_frame' = [disableBitmoji |-> b, disableMetrics |-> m]
    /\ native_config' = [native_config EXCEPT
           !.disable_bitmoji = GET_CONFIG_BOOL(cfg_frame', "disableBitmoji")]
    /\ cfg_pc' = "metrics"
    /\ UNCHANGED <<init_done, log, calls, fstat_original, unaryCall_original,
                   ref_counter_struct_size, pc, frame, unlinked, heap,
                   slice_buffer, crashed>>

\* native_config->disable_metrics = GET_CONFIG_BOOL("disableMetrics")
load_config_metrics ==
    /\ ~crashed /\ cfg_pc = "metrics"
    /\ native_config' = [native_config EXCEPT
           !.disable_metrics = GET_CONFIG_BOOL(cfg_frame, "disableMetrics")]
    /\ cfg_pc' = "idle"
    /\ cfg_frame' = NoConfigFrame
    /\ UNCHANGED <<init_done, log, calls, fstat_original, unaryCall_original,
                   ref_counter_struct_size, pc, frame, unlinked,
                   heap, slice_buffer, crashed>>

(***************************************************************************)
(* fstat_hook                                                              *)
(***************************************************************************)
\* lines 17-29: resolve the path, apply the metrics rule
fstat_hook_metrics(fd, buf, e0, g) ==
    /\ ~crashed /\ pc = "idle" /\ fstat_original # "null"
    /\ LET rl == Readlink(Snprintf(fd), fd)
           fileName == CStr(rl.buf, g)
           e1 == IF rl.ok THEN e0 ELSE "EBADF"
           f0 == [op |-> "fstat", fd |-> fd, buf |-> buf, errno0 |-> e0,
                  resolved |-> LinkTarget(fd), fileName |-> fileName,
                  unlinked0 |-> unlinked,
                  metrics |-> native_config.disable_metrics,
                  bitmoji |-> FALSE, stage |-> 1,
                  ev |-> <<>>, ret |-> 0, errno |-> e1]
       IN  /\ HasNul(rl.buf) => g = <<>>
           /\ IF MetricsRule(native_config, fileName)
              THEN LET victims == UnlinkTargets(fileName)
                   IN  /\ unlinked' = unlinked \cup victims
                       /\ frame' = [f0 EXCEPT
                              !.ev = <<[e |-> "unlink", path |-> fileName]>>,
                              !.ret = FstatDenied,
                              !.errno = IF victims = {} THEN "ENOENT" ELSE e1]
                       /\ pc' = "returned"
              ELSE /\ frame' = f0
                   /\ pc' = "fstat_bitmoji"
                   /\ UNCHANGED unlinked
    /\ UNCHANGED <<init_done, log, calls, native_config, fstat_original,
                   unaryCall_original, ref_counter_struct_size, cfg_pc,
                   cfg_frame, heap, slice_buffer, crashed>>

\* lines 31-37: apply the bitmoji rule, else forward to the original
fstat_hook_bitmoji(r) ==
    /\ ~crashed /\ pc = "fstat_bitmoji"
    /\ LET f1 == [frame EXCEPT !.bitmoji = native_config.disable_bitmoji,
                               !.stage = 2]
       IN  IF BitmojiRule(native_config, frame.fileName)
           THEN /\ r = [ret |-> FstatDenied, errno |-> frame.errno]
                /\ frame' = [f1 EXCEPT !.ret = FstatDenied]
           ELSE /\ r \in OrigFstat(frame.fd, frame.errno)
                /\ frame' = [f1 EXCEPT
                       !.ev = Append(frame.ev,
                                  [e |-> "orig", fd |-> frame.fd,
                                   buf |-> frame.buf, ret |-> r.ret]),
                       !.ret = r.ret,
                       !.errno = r.errno]
    /\ pc' = "returned"
    /\ UNCHANGED <<init_done, log, calls, native_config, fstat_original,
                   unaryCall_original, ref_counter_struct_size, cfg_pc,
                   cfg_frame, unlinked, heap, slice_buffer, crashed>>

\* the interceptor has returned; the caller goes on
host_resume ==
    /\ ~crashed /\ pc = "returned"
    /\ pc' = "idle"
    /\ frame' = NoFrame
    /\ heap' = [b \in Blocks |-> FreeBlock]
    /\ slice_buffer' = NullSlice
    /\ UNCHANGED <<init_done, log, calls, native_config, fstat_original,
                   unaryCall_original, ref_counter_struct_size, cfg_pc,
                   cfg_frame, unlinked, crashed>>

(***************************************************************************)
(* unaryCall_hook: memory                                                  *)
(***************************************************************************)
Header(h) == [i \in 1..h |-> 100 + i]

Payload(n) == [i \in 1..n |-> 200 + i]

NewPayload(n) == [i \in 1..n |-> 50 + i]

\* content of memory malloc returns
Uninit(n) == [i \in 1..n |-> -1]

\* values a read outside every live block may yield
GarbageBytes == {0, 170}

BlockOf(addr) == addr \div Stride

OffsetOf(addr) == addr % Stride

\* the addresses addr .. addr+cnt-1 lie in one live block
InBounds(hp, addr, cnt) ==
    /\ BlockOf(addr) \in Blocks
    /\ hp[BlockOf(addr)].live
    /\ OffsetOf(addr) + cnt <= Len(hp[BlockOf(addr)].bytes)

\* cnt bytes read from addr on; g is read where no live block lies
ReadBytes(hp, addr, cnt, g) ==
    [i \in 1..cnt |->
        LET a == addr + i - 1
        IN  IF BlockOf(a) \in Blocks /\ hp[BlockOf(a)].live
               /\ OffsetOf(a) < Len(hp[BlockOf(a)].bytes)
            THEN hp[BlockOf(a)].bytes[OffsetOf(a) + 1]
            ELSE g]

\* the host's buffer: a reference-counted slice (h > 0: the header precedes
\* the payload in one heap block) or a slice without reference counter
HostHeap(h, n) ==
    [b \in Blocks |->
        IF b = 1 THEN [live |-> TRUE, bytes |-> Header(h) \o Payload(n)]
        ELSE FreeBlock]

HostSlice(h, n) ==
    [ref_counter |-> IF h = 0 THEN 0 ELSE Base(1),
     data |-> Base(1) + h,
     length |-> n]

Uris == {"uri1", "uri2"}

CallArgs ==
    {[unk1 |-> "ctx", uri |-> u, buffer_ptr |-> "bufpp",
      unk4 |-> "h4", unk5 |-> "h5", unk6 |-> "h6"] : u \in Uris}

OrigResults == {"nullptr", "resA"}

\* what onNativeUnaryCall hands back: null, an exception, or a
\* NativeRequestData {canceled, buffer} whose buffer may be null
Decisions ==
    {[kind |-> "null", buffer |-> <<>>], [kind |-> "throw", buffer |-> <<>>],
     [kind |-> "cancel", buffer |-> <<>>], [kind |-> "malformed", buffer |-> <<>>]}
    \cup {[kind |-> "rewrite", buffer |-> NewPayload(n)] : n \in 0..MaxNewPayload}

\* mutant: the test looks at the length instead of the reference counter
HasNoRefCounter_TestsLength(sb) == sb.length = 0

\* line 52: slice_buffer->ref_counter == 0
HasNoRefCounter(sb) == sb.ref_counter = 0

\* mutant: a null result is not recognised, only a thrown exception is
ReturnedNull_OnlyThrow(d) == d.kind = "throw"

\* line 68: native_request_data_object == nullptr (CallObjectMethod yields
\* null when the method returned null and when it threw)
ReturnedNull(d) == d.kind \in {"null", "throw"}

\* mutant: the canceled field is ignored
IsCanceled_Ignored(d) == FALSE

\* lines 70-73: the canceled field of the returned object
IsCanceled(d) == d.kind = "cancel"

\* line 78: the buffer field of the returned object is null
HasNullBuffer(d) == d.kind = "malformed"

\* line 75
CanceledResult == "nullptr"

\* malloc takes the lowest free block
MallocBlock(hp) == CHOOSE b \in Blocks : ~hp[b].live /\ \A c \in Blocks : c < b => hp[c].live

UnarySame == <<init_done, log, calls, native_config, fstat_original, unaryCall_original,
               cfg_pc, cfg_frame, unlinked>>

(***************************************************************************)
(* unaryCall_hook                                                          *)
(***************************************************************************)
\* lines 50-61: the reference counter test, the copy of the payload
unaryCall_hook_enter(args, h, n) ==
    /\ ~crashed /\ pc = "idle" /\ unaryCall_original # "null"
    /\ heap' = HostHeap(h, n)
    /\ slice_buffer' = HostSlice(h, n)
    /\ LET sb == HostSlice(h, n)
           f0 == [op |-> "unaryCall", args |-> args,
                  slice0 |-> sb, heap0 |-> HostHeap(h, n),
                  jni_buffer_array |-> <<>>, ev |-> <<>>,
                  decision |-> "none", exception_pending |-> FALSE,
                  new_buffer |-> <<>>, new_ref_counter |-> 0,
                  freed |-> <<>>,
                  orig |-> <<>>, ret |-> "none"]
       IN  IF HasNoRefCounter(sb)
           THEN /\ frame' = f0
                /\ pc' = "call_orig"
           ELSE /\ frame' = [f0 EXCEPT
                       !.jni_buffer_array =
                           ReadBytes(HostHeap(h, n), sb.data, sb.length, 0),
                       !.ev = <<"read_payload">>]
                /\ pc' = "decide"
    /\ UNCHANGED <<ref_counter_struct_size, crashed>>
    /\ UNCHANGED UnarySame

\* the static is initialised the first time control passes its declaration
StaticSize(sb) ==
    IF ref_counter_struct_size = Unset
    THEN sb.data - sb.ref_counter
    ELSE ref_counter_struct_size

\* lines 63-87: the call of the decision-maker and what follows from its answer
unaryCall_hook_decide(d, u) ==
    /\ ~crashed /\ pc = "decide"
    /\ ~HasNullBuffer(d) => u = "proceed"
    /\ LET f1 == [frame EXCEPT !.ev = Append(frame.ev, "decide"),
                               !.decision = d.kind,
                               !.exception_pending = (d.kind = "throw")]
       IN  IF ReturnedNull(d)
           THEN /\ frame' = f1
                /\ pc' = "call_orig"
                /\ UNCHANGED <<ref_counter_struct_size, crashed>>
           ELSE IF IsCanceled(d)
           THEN /\ frame' = [f1 EXCEPT !.ret = CanceledResult]
                /\ pc' = "returned"
                /\ UNCHANGED <<ref_counter_struct_size, crashed>>
           \* GetArrayLength(nullptr): the call aborts the process, or yields
           \* an empty array
           ELSE IF HasNullBuffer(d) /\ u = "fault"
           THEN /\ frame' = f1
                /\ crashed' = TRUE
                /\ pc' = "crashed"
                /\ UNCHANGED ref_counter_struct_size
           ELSE /\ frame' = [f1 EXCEPT !.new_buffer = d.buffer]
                /\ ref_counter_struct_size' = StaticSize(slice_buffer)
                /\ pc' = "malloc"
                /\ UNCHANGED crashed
    /\ UNCHANGED <<heap, slice_buffer>>
    /\ UNCHANGED UnarySame

\* line 89: malloc(ref_counter_struct_size + new_buffer_length)
unaryCall_hook_malloc(ok) ==
    /\ ~crashed /\ pc = "malloc"
    /\ IF ok
       THEN LET b == MallocBlock(heap)
            IN  /\ heap' = [heap EXCEPT ![b] =
                       [live |-> TRUE,
                        bytes |-> Uninit(ref_counter_struct_size
                                         + Len(frame.new_buffer))]]
                /\ frame' = [frame EXCEPT !.new_ref_counter = Base(b),
                                          !.ev = Append(frame.ev, "malloc")]
       ELSE /\ frame' = [frame EXCEPT !.new_ref_counter = 0,
                                      !.ev = Append(frame.ev, "malloc_failed")]
            /\ UNCHANGED heap
    /\ pc' = "memcpy"
    /\ UNCHANGED <<ref_counter_struct_size, slice_buffer, crashed>>
    /\ UNCHANGED UnarySame

\* lines 91-93: the header, then the new payload.  A store through the null
\* pointer faults; a read beyond the old block faults or yields what lies
\* there (g)
unaryCall_hook_memcpy(u, g) ==
    /\ ~crashed /\ pc = "memcpy"
    /\ LET size == ref_counter_struct_size
           srcOk == InBounds(heap, slice_buffer.ref_counter, size)
           dstOk == frame.new_ref_counter # 0
           copied == ReadBytes(heap, slice_buffer.ref_counter, size, g)
                     \o frame.new_buffer
       IN  /\ (srcOk /\ dstOk) => u = "proceed"
           /\ ~dstOk => u = "fault"
           /\ (srcOk \/ u = "fault") => g = 0
           /\ IF u = "fault"
              THEN /\ crashed' = TRUE
                   /\ pc' = "crashed"
                   /\ UNCHANGED <<heap, frame>>
              ELSE /\ heap' = [heap EXCEPT
                          ![BlockOf(frame.new_ref_counter)].bytes = copied]
                   /\ frame' = [frame EXCEPT !.ev = Append(frame.ev, "memcpy")]
                   /\ pc' = "free"
                   /\ UNCHANGED crashed
    /\ UNCHANGED <<ref_counter_struct_size, slice_buffer>>
    /\ UNCHANGED UnarySame

\* mutant: the block freed is the new one
FreeArg_NewBlock(sb, new_ref_counter) == new_ref_counter

\* line 96: the pointer handed to free
FreeArg(sb, new_ref_counter) == sb.ref_counter

\* line 96: free(slice_buffer->ref_counter)
unaryCall_hook_free ==
    /\ ~crashed /\ pc = "free"
    /\ LET p == FreeArg(slice_buffer, frame.new_ref_counter)
       IN  /\ heap' = [heap EXCEPT ![BlockOf(p)] = FreeBlock]
           /\ frame' = [frame EXCEPT
                  !.ev = Append(frame.ev, "free"),
                  !.freed = Append(frame.freed,
                                [ptr |-> p, live |-> heap[BlockOf(p)].live])]
    /\ pc' = "set_ref_counter"
    /\ UNCHANGED <<ref_counter_struct_size, slice_buffer, crashed>>
    /\ UNCHANGED UnarySame

\* line 99
unaryCall_hook_set_ref_counter ==
    /\ ~crashed /\ pc = "set_ref_counter"
    /\ slice_buffer' = [slice_buffer EXCEPT !.ref_counter = frame.new_ref_counter]
    /\ pc' = "set_length"
    /\ UNCHANGED <<ref_counter_struct_size, heap, frame, crashed>>
    /\ UNCHANGED UnarySame

\* line 100
unaryCall_hook_set_length ==
    /\ ~crashed /\ pc = "set_length"
    /\ slice_buffer' = [slice_buffer EXCEPT !.length = Len(frame.new_buffer)]
    /\ pc' = "set_data"
    /\ UNCHANGED <<ref_counter_struct_size, heap, frame, crashed>>
    /\ UNCHANGED UnarySame

\* line 101
unaryCall_hook_set_data ==
    /\ ~crashed /\ pc = "set_data"
    /\ slice_buffer' = [slice_buffer EXCEPT
           !.data = frame.new_ref_counter + ref_counter_struct_size]
    /\ pc' = "call_orig"
    /\ UNCHANGED <<ref_counter_struct_size, heap, frame, crashed>>
    /\ UNCHANGED UnarySame

\* the arguments the original dispatch is called with
ForwardedArgs(args) == args

\* lines 53, 104: return unaryCall_original(unk1, uri, buffer_ptr, unk4, unk5, unk6)
unaryCall_hook_original(r) ==
    /\ ~crashed /\ pc = "call_orig"
    /\ frame' = [frame EXCEPT
           !.ev = Append(frame.ev, "orig"),
           !.orig = Append(frame.orig,
                       [args |-> ForwardedArgs(frame.args),
                        slice |-> slice_buffer, heap |-> heap, ret |-> r]),
           !.ret = r]
    /\ pc' = "returned"
    /\ UNCHANGED <<ref_counter_struct_size, heap, slice_buffer, crashed>>
    /\ UNCHANGED UnarySame

Init ==
    /\ init_done = FALSE
    /\ log = <<>>
    /\ calls = <<>>
    /\ native_config = NullConfig
    /\ fstat_original = "null"
    /\ unaryCall_original = "null"
    /\ ref_counter_struct_size = Unset
    /\ cfg_pc = "idle"
    /\ cfg_frame = NoConfigFrame
    /\ pc = "idle"
    /\ frame = NoFrame
    /\ unlinked = {}
    /\ heap = [b \in Blocks |-> FreeBlock]
    /\ slice_buffer = NullSlice
    /\ crashed = FALSE
    /\ history = NoHistory

FstatResults ==
    {[ret |-> x, errno |-> e] :
        x \in {0, -1}, e \in EntryErrnos \cup {"EBADF", "EIO", "ENOENT"}}

Outcomes == {"proceed", "fault"}

Next ==
    \/ /\ \E cm \in ClientModules, fh \in HookResults, uf \in SignatureResults,
             uh \in HookResults, m0 \in BOOLEAN, b0 \in BOOLEAN :
               init(cm, fh, uf, uh, m0, b0)
       /\ UNCHANGED history
    \/ (\E b, m \in BOOLEAN : load_config_bitmoji(b, m)) /\ UNCHANGED history
    \/ load_config_metrics /\ UNCHANGED history
    \/ /\ \E fd \in FDs, buf \in StatBufs, e0 \in EntryErrnos, g \in StackGarbage :
               fstat_hook_metrics(fd, buf, e0, g)
       /\ UNCHANGED history
    \/ (\E r \in FstatResults : fstat_hook_bitmoji(r)) /\ UNCHANGED history
    \/ /\ \E a \in CallArgs, h \in 0..MaxHdr, n \in 0..MaxPayload :
               unaryCall_hook_enter(a, h, n)
       /\ UNCHANGED history
    \/ (\E d \in Decisions, u \in Outcomes : unaryCall_hook_decide(d, u))
           /\ UNCHANGED history
    \/ (\E ok \in BOOLEAN : unaryCall_hook_malloc(ok)) /\ UNCHANGED history
    \/ (\E u \in Outcomes, g \in GarbageBytes : unaryCall_hook_memcpy(u, g))
           /\ UNCHANGED history
    \/ unaryCall_hook_free /\ UNCHANGED history
    \/ unaryCall_hook_set_ref_counter /\ UNCHANGED history
    \/ unaryCall_hook_set_length /\ UNCHANGED history
    \/ unaryCall_hook_set_data /\ UNCHANGED history
    \/ (\E r \in OrigResults : unaryCall_hook_original(r)) /\ UNCHANGED history
    \/ host_resume /\ UNCHANGED history

\* The interceptors run one invocation at a time on the host thread; the
\* thread that runs load_config interleaves with it.
Spec == Init /\ [][Next]_vars

(***************************************************************************)
(* init, load_config and fstat_hook with the history of the configuration: *)
(* published, the flags as init or the last completed load_config left     *)
(* them; last_push, the flags of the config object of the last completed   *)
(* load_config; start, last_push as it stood when the running fstat_hook   *)
(* was entered (NullConfig when a load_config was under way); seen, the     *)
(* complete configurations there have been while the running fstat_hook    *)
(* ran.                                                                    *)
(***************************************************************************)
\* the descriptors fstat_hook is called on here: a metrics-queue path, a
\* companion-content path, a path with neither marker, a path with both
ConfigFDs == {3, 4, 5, 9}

Target == [disable_metrics |-> cfg_frame.disableMetrics,
           disable_bitmoji |-> cfg_frame.disableBitmoji]

NextConfig ==
    \/ /\ \E cm \in ClientModules, fh \in HookResults, uf \in SignatureResults,
             uh \in HookResults, m0 \in BOOLEAN, b0 \in BOOLEAN :
               init(cm, fh, uf, uh, m0, b0)
       /\ history' = [history EXCEPT !.published = native_config']
    \/ /\ \E b, m \in BOOLEAN : load_config_bitmoji(b, m)
       /\ history' = [history EXCEPT !.seen =
              IF pc = "fstat_bitmoji" THEN @ \cup {Target'} ELSE @]
    \/ /\ load_config_metrics
       /\ history' = [history EXCEPT !.published = native_config',
                                     !.last_push = Target]
    \/ /\ \E fd \in ConfigFDs, buf \in StatBufs :
               fstat_hook_metrics(fd, buf, "E0", <<>>)
       /\ history' = [history EXCEPT
              !.start = IF cfg_pc = "idle" THEN history.last_push ELSE NullConfig,
              !.seen = {history.published} \cup
                       (IF cfg_pc = "idle" THEN {} ELSE {Target})]
    \/ (\E r \in FstatResults : fstat_hook_bitmoji(r)) /\ UNCHANGED history
    \/ /\ host_resume
       /\ history' = [history EXCEPT !.start = NullConfig, !.seen = {}]

SpecConfig == Init /\ [][NextConfig]_vars

(***************************************************************************)
(* Properties of init                                                      *)
(***************************************************************************)
\* init has called f on arg
Called(f, arg) == \E i \in DOMAIN calls : calls[i].f = f /\ calls[i].arg = arg

\* init has called f on arg and the call failed
Failed(f, arg) ==
    \E i \in DOMAIN calls : calls[i].f = f /\ calls[i].arg = arg /\ ~calls[i].ok

Logged(msg) == \E i \in DOMAIN log : log[i] = msg

\* init has run to its last statement
RanToCompletion == init_done /\ log[Len(log)] = "D:Native initialized"

\* the messages init writes whatever DobbyHook reports
HookIndependentMessages ==
    {"D:Initializing native", "E:libclient not found", "D:libclient.so offset",
     "E:can't find unaryCall signature", "D:Native initialized"}

\* C11: when get_module returns a module with base 0, init gives up the
\* initialization that depends on the library without crashing: the signature
\* scanner is never invoked, the unary-call hook is never installed (and so
\* never runs), and init returns.
C11_ModuleMissingAborts ==
    Failed("get_module", "libclient.so") =>
        /\ init_done /\ ~crashed
        /\ Logged("E:libclient not found")
        /\ ~Called("find_signature", "unaryCall")
        /\ ~Called("DobbyHook", "unaryCall")
        /\ unaryCall_original = "null"
        /\ frame.op # "unaryCall"

C11_Witness ==
    /\ init_done /\ Failed("get_module", "libclient.so")
    /\ Len(calls) = 2 /\ unaryCall_original = "null"

\* C12: when the target library is not loaded only the unary-call hook is
\* left uninstalled: the file-status hook, which does not depend on the
\* library, has been installed by the time init returns.
C12_FstatHookInstalledAnyway ==
    (init_done /\ Failed("get_module", "libclient.so")) =>
        /\ unaryCall_original = "null"
        /\ Called("DobbyHook", "fstat")
        /\ ~Failed("DobbyHook", "fstat") => fstat_original = "fstat"

\* C13: when the library is loaded and the signature scan finds nothing,
\* init logs the failure, does not install the unary-call hook and does not
\* abort: the file-status hook has been handed to the hook primitive (and is
\* installed wherever the primitive succeeded) and init runs to completion.
C13_SignatureNotFoundIsSoft ==
    Failed("find_signature", "unaryCall") =>
        /\ Logged("E:can't find unaryCall signature")
        /\ ~Called("DobbyHook", "unaryCall")
        /\ unaryCall_original = "null"
        /\ frame.op # "unaryCall"
        /\ Called("DobbyHook", "fstat")
        /\ ~Failed("DobbyHook", "fstat") => fstat_original = "fstat"
        /\ RanToCompletion
        /\ ~crashed

C13_Witness ==
    /\ init_done /\ Failed("find_signature", "unaryCall")
    /\ fstat_original = "fstat" /\ unaryCall_original = "null"
    /\ RanToCompletion

\* C14: when DobbyHook fails on a target (fstat or the unary call), init
\* logs the failure, the feature that depends on the hook stays disabled, and
\* the remaining steps of init still run to completion.
C14_HookFailureLogged ==
    (init_done /\ (Failed("DobbyHook", "fstat") \/ Failed("DobbyHook", "unaryCall"))) =>
        /\ \E i \in DOMAIN log : log[i] \notin HookIndependentMessages
        /\ Failed("DobbyHook", "fstat") =>
              fstat_original = "null" /\ frame.op # "fstat"
        /\ Failed("DobbyHook", "unaryCall") =>
              unaryCall_original = "null" /\ frame.op # "unaryCall"
        /\ Called("find_signature", "unaryCall")
        /\ RanToCompletion

(***************************************************************************)
(* Properties of unaryCall_hook                                            *)
(***************************************************************************)
InUnary == frame.op = "unaryCall"

\* the running invocation has performed step e
Did(e) == \E i \in DOMAIN frame.ev : frame.ev[i] = e

\* the buffer and the heap are as they were when the interceptor was entered
BufferUntouched == slice_buffer = frame.slice0 /\ heap = frame.heap0

NoAllocNoFree == ~Did("malloc") /\ ~Did("malloc_failed") /\ ~Did("free")

\* the original dispatch was called once, saw the buffer as it was on entry,
\* and its result is the interceptor's
ForwardedUnmodifiedOnce ==
    /\ Len(frame.orig) = 1
    /\ frame.orig[1].slice = frame.slice0
    /\ frame.orig[1].heap = frame.heap0
    /\ frame.ret = frame.orig[1].ret

\* C1: an invocation whose SliceBuffer has reference counter zero goes
\* straight to the original dispatch: it never reads the payload, never calls
\* the decision-maker, allocates, copies and frees nothing, leaves the three
\* SliceBuffer fields as they were, and calls the original exactly once,
\* returning its result.
C1_RefCounterZeroForwards ==
    (InUnary /\ frame.slice0.ref_counter = 0) =>
        /\ pc \in {"call_orig", "returned"}
        /\ ~Did("read_payload") /\ ~Did("decide") /\ ~Did("memcpy")
        /\ NoAllocNoFree
        /\ BufferUntouched
        /\ Len(frame.orig) <= 1
        /\ pc = "returned" => ForwardedUnmodifiedOnce

C1_Witness ==
    /\ InUnary /\ pc = "returned"
    /\ frame.slice0.ref_counter = 0 /\ frame.slice0.length > 0
    /\ Len(frame.orig) = 1

\* C2: when the decision-maker answers Rewrite(P), at the moment the original
\* dispatch is called ref_counter is a newly allocated block of size
\* header_size + |P|, data = ref_counter + header_size, length = |P|, the |P|
\* bytes at data are P and the first header_size bytes of the block are the
\* original header, header_size being data - ref_counter on entry.
C2_RewriteResult ==
    (InUnary /\ frame.decision = "rewrite" /\ pc = "call_orig") =>
        LET hs == frame.slice0.data - frame.slice0.ref_counter
            P == frame.new_buffer
            b == BlockOf(slice_buffer.ref_counter)
            old == frame.heap0[BlockOf(frame.slice0.ref_counter)].bytes
        IN  /\ Did("malloc")
            /\ slice_buffer.ref_counter = frame.new_ref_counter
            /\ b \in Blocks /\ Base(b) = slice_buffer.ref_counter
            /\ slice_buffer.ref_counter # frame.slice0.ref_counter
            /\ heap[b].live
            /\ Len(heap[b].bytes) = hs + Len(P)
            /\ slice_buffer.data = slice_buffer.ref_counter + hs
            /\ slice_buffer.length = Len(P)
            /\ SubSeq(heap[b].bytes, hs + 1, hs + Len(P)) = P
            /\ SubSeq(heap[b].bytes, 1, hs) = SubSeq(old, 1, hs)

\* C3: when the decision-maker answers Cancel the original dispatch is never
\* called, the interceptor returns null, no block is allocated or freed, and
\* the SliceBuffer fields and the payload bytes are as they were on entry.
C3_CancelDropsRequest ==
    (InUnary /\ frame.decision = "cancel") =>
        /\ pc = "returned"
        /\ frame.orig = <<>> /\ ~Did("orig")
        /\ frame.ret = "nullptr"
        /\ NoAllocNoFree /\ ~Did("memcpy")
        /\ BufferUntouched

C3_Witness ==
    /\ InUnary /\ pc = "returned" /\ frame.decision = "cancel"
    /\ frame.slice0.length > 0 /\ frame.ret = "nullptr"

\* C4: when the decision-maker answers NoOpinion (null), ref_counter, data,
\* length and the payload bytes are, when the original dispatch is called,
\* what they were on entry, and no block is allocated or freed.
C4_NoOpinionLeavesBuffer ==
    (InUnary /\ frame.decision = "null") =>
        /\ BufferUntouched
        /\ NoAllocNoFree /\ ~Did("memcpy")
        /\ pc \in {"call_orig", "returned"}
        /\ pc = "returned" => ForwardedUnmodifiedOnce

C4_Witness ==
    /\ InUnary /\ pc = "returned" /\ frame.decision = "null"
    /\ frame.slice0.length > 0 /\ Len(frame.orig) = 1

\* C5: in every invocation whose decision is not Cancel (the reference
\* counter zero skip, NoOpinion, Rewrite) the original dispatch is called
\* exactly once, after the reallocation steps, with the context handle, URI,
\* buffer pointer and three handles the interceptor received, and its result
\* is returned unchanged; no invocation calls the original more than once.
C5_OriginalExactlyOnce ==
    InUnary =>
        /\ Len(frame.orig) <= 1
        /\ ((frame.slice0.ref_counter = 0 \/ frame.decision \in {"null", "rewrite"})
            /\ pc \in {"returned", "crashed"}) =>
              /\ pc = "returned"
              /\ Len(frame.orig) = 1
              /\ frame.ev[Len(frame.ev)] = "orig"
              /\ frame.orig[1].args = frame.args
              /\ frame.ret = frame.orig[1].ret

\* C6: when the allocation of the new block fails the rewrite is given up:
\* ref_counter, data and length stay as they were, the old block is not
\* freed, nothing is copied, and the original dispatch is still called with
\* the unmodified buffer.
C6_AllocFailureFallsBack ==
    (InUnary /\ frame.decision = "rewrite" /\ Did("malloc_failed")) =>
        /\ BufferUntouched
        /\ ~Did("memcpy") /\ ~Did("free")
        /\ pc \in {"memcpy", "call_orig", "returned"}
        /\ pc = "returned" => ForwardedUnmodifiedOnce

\* C7: when the decision-maker throws or returns malformed data (a non-null,
\* non-cancelled result whose buffer is null) the outcome is treated as
\* NoOpinion: nothing is allocated, copied or freed, the SliceBuffer is
\* unchanged and the original dispatch is called exactly once.
C7_DecisionFailureIsNoOpinion ==
    (InUnary /\ frame.decision \in {"throw", "malformed"}) =>
        /\ BufferUntouched
        /\ NoAllocNoFree /\ ~Did("memcpy")
        /\ pc \in {"call_orig", "returned"}
        /\ pc = "returned" => ForwardedUnmodifiedOnce

\* C16: in every Rewrite invocation, not only the first of the process, the
\* header size used for the allocation, the copy of the header and the
\* placement of data is data - ref_counter of that invocation's own
\* SliceBuffer: no value computed in an earlier invocation is carried over.
C16_HeaderSizePerInvocation ==
    (InUnary /\ frame.decision = "rewrite") =>
        LET hs == frame.slice0.data - frame.slice0.ref_counter
        IN  /\ ref_counter_struct_size = hs
            /\ Did("malloc") =>
                  Len(heap[BlockOf(frame.new_ref_counter)].bytes)
                      = hs + Len(frame.new_buffer)
            /\ pc \in {"call_orig", "returned"} =>
                  slice_buffer.data = frame.new_ref_counter + hs

\* C17: in every Rewrite invocation the old block is freed exactly once,
\* after the header has been copied out of it and before the original
\* dispatch is called; no invocation frees a block twice, frees a block that
\* is not live, or frees the block it has allocated.
C17_OldBlockFreedOnce ==
    InUnary =>
        /\ Len(frame.freed) <= 1
        /\ \A i \in DOMAIN frame.freed :
              /\ frame.freed[i].live
              /\ frame.freed[i].ptr = frame.slice0.ref_counter
              /\ frame.freed[i].ptr # frame.new_ref_counter
        /\ \A i \in DOMAIN frame.ev :
              frame.ev[i] = "free" =>
                  /\ \E k \in 1..(i - 1) : frame.ev[k] = "memcpy"
                  /\ \A j \in 1..(i - 1) : frame.ev[j] # "orig"
        /\ (frame.decision = "rewrite" /\ pc \in {"call_orig", "returned"}) =>
              /\ Len(frame.freed) = 1
              /\ ~heap[BlockOf(frame.slice0.ref_counter)].live
              /\ heap[BlockOf(frame.new_ref_counter)].live
        /\ frame.decision \in {"none", "null", "throw", "cancel"} =>
              frame.freed = <<>>

C17_Witness ==
    /\ InUnary /\ frame.decision = "rewrite" /\ pc = "returned"
    /\ Len(frame.freed) = 1 /\ Len(frame.orig) = 1
    /\ frame.slice0.length > 0 /\ Len(frame.new_buffer) > 0

\* C20: in every state another thread can observe while a Rewrite is in
\* progress the SliceBuffer is consistent: ref_counter is a live block, data
\* points inside that block, and length is the length of the payload the
\* block holds from data on; no state shows a pointer into the freed old
\* block or the new length with the old data pointer.
C20_ObservablyConsistent ==
    (InUnary /\ frame.decision = "rewrite" /\ ~crashed
     /\ pc \in {"malloc", "memcpy", "free", "set_ref_counter", "set_length",
                "set_data", "call_orig"}) =>
        LET b == BlockOf(slice_buffer.ref_counter)
        IN  /\ b \in Blocks /\ Base(b) = slice_buffer.ref_counter
            /\ heap[b].live
            /\ slice_buffer.data >= slice_buffer.ref_counter
            /\ slice_buffer.data - slice_buffer.ref_counter <= Len(heap[b].bytes)
            /\ slice_buffer.length =
                  Len(heap[b].bytes) - (slice_buffer.data - slice_buffer.ref_counter)

(***************************************************************************)
(* Properties of fstat_hook                                                *)
(***************************************************************************)
FstatReturned == frame.op = "fstat" /\ pc = "returned"

\* the metrics rule, on the flag the invocation read and the path the
\* descriptor resolves to
MetricsApplies ==
    frame.metrics /\ Contains(frame.resolved, MetricsMarker)

\* the bitmoji flag as the invocation read it or, where it returned without
\* reading it, as it stands
BitmojiFlag ==
    IF frame.stage = 2 THEN frame.bitmoji ELSE native_config.disable_bitmoji

BitmojiApplies ==
    BitmojiFlag /\ Contains(frame.resolved, BitmojiMarker)

FileExistsAt(path) ==
    \E f \in FDs \ unlinked : FdTable[f] # NoLink /\ FdTable[f] = path

CalledOriginal == \E i \in DOMAIN frame.ev : frame.ev[i].e = "orig"

CalledUnlink == \E i \in DOMAIN frame.ev : frame.ev[i].e = "unlink"

\* C8: when disable_metrics is set and the path the descriptor resolves to
\* contains the metrics-queue marker, the interceptor deletes the file at
\* that path, returns -1 and never calls the original fstat.
C8_MetricsPathDeletedAndDenied ==
    (FstatReturned /\ MetricsApplies) =>
        /\ frame.ret = -1
        /\ ~CalledOriginal
        /\ \E i \in DOMAIN frame.ev :
              frame.ev[i].e = "unlink" /\ frame.ev[i].path = frame.resolved
        /\ ~FileExistsAt(frame.resolved)

\* C9: when the metrics rule does not apply, disable_bitmoji is set and the
\* path the descriptor resolves to contains the companion-content marker, the
\* interceptor returns -1, deletes no file and does not call the original.
C9_BitmojiPathDenied ==
    (FstatReturned /\ ~MetricsApplies /\ BitmojiApplies) =>
        /\ frame.ret = -1
        /\ ~CalledOriginal /\ ~CalledUnlink
        /\ unlinked = frame.unlinked0

\* C10: when neither rule applies (a metrics-queue path with disable_metrics
\* unset included) the interceptor deletes nothing, calls the original fstat
\* exactly once with the descriptor and status buffer it was given, and
\* returns the original's result.
C10_OtherwiseForwarded ==
    (FstatReturned /\ ~MetricsApplies /\ ~BitmojiApplies) =>
        /\ unlinked = frame.unlinked0
        /\ ~CalledUnlink
        /\ Len(frame.ev) = 1
        /\ frame.ev[1].e = "orig"
        /\ frame.ev[1].fd = frame.fd /\ frame.ev[1].buf = frame.buf
        /\ frame.ret = frame.ev[1].ret

\* C19: when fstat_hook denies a call on the metrics path the error it
\* reports is "no such entity": on return errno is ENOENT, whether the
\* resolution of the path and the deletion of the file succeeded or failed.
C19_MetricsDenialIsENOENT ==
    (FstatReturned /\ CalledUnlink /\ frame.ret = -1) => frame.errno = "ENOENT"

(***************************************************************************)
(* Properties of load_config                                               *)
(***************************************************************************)
\* the invocation that has returned was entered after a load_config had
\* completed, with none under way, and none began while it ran
RanBetweenPushes ==
    /\ FstatReturned
    /\ history.start # NullConfig
    /\ Cardinality(history.seen) = 1

\* C15: after a load_config with flags (disableMetrics = m, disableBitmoji =
\* c) has completed, every fstat_hook invocation that runs after it and
\* before the next load_config decides on exactly m and c: the flags it
\* reads are m and c, it unlinks and denies exactly when m is set and the
\* name holds the metrics marker, denies without unlinking exactly when that
\* is not so, c is set and the name holds the companion marker, and calls the
\* original otherwise.
C15_PushTakesEffect ==
    RanBetweenPushes =>
        LET m == history.start.disable_metrics
            c == history.start.disable_bitmoji
            onMetrics == m /\ Contains(frame.fileName, MetricsMarker)
            onBitmoji == c /\ Contains(frame.fileName, BitmojiMarker)
        IN  /\ frame.metrics = m
            /\ frame.stage = 2 => frame.bitmoji = c
            /\ CalledUnlink <=> onMetrics
            /\ (frame.ret = -1 /\ ~CalledUnlink /\ ~CalledOriginal)
                   <=> (~onMetrics /\ onBitmoji)
            /\ CalledOriginal <=> (~onMetrics /\ ~onBitmoji)

C15_Witness ==
    /\ RanBetweenPushes /\ frame.stage = 2
    /\ ~history.start.disable_metrics /\ history.start.disable_bitmoji
    /\ Contains(frame.fileName, MetricsMarker)
    /\ frame.ret = -1 /\ ~CalledOriginal /\ ~CalledUnlink

\* C18: an fstat_hook invocation that runs while load_config runs never
\* decides on a torn configuration: the pair (disable_metrics,
\* disable_bitmoji) it has read is one of the complete configurations there
\* were while it ran (the flags before a load_config or the flags after it),
\* never one flag from each.
C18_NoTornConfiguration ==
    (FstatReturned /\ frame.stage = 2) =>
        [disable_metrics |-> frame.metrics,
         disable_bitmoji |-> frame.bitmoji] \in history.seen

====
